---- MODULE Spec2Model ----
(***************************************************************************)
(* Progress tracking of ComfyUIClient (src/src/comfyui.ts).  The file      *)
(* holds two revisions of the class: the weighted one (lines 57-273) and   *)
(* the node-count one with time estimates (lines 318-539).  A behaviour    *)
(* follows one client object of one revision from construction on: one     *)
(* queuePrompt call (as the job processors of src/src/index.ts make), the  *)
(* HTTP response to it, and the websocket messages that arrive meanwhile   *)
(* and afterwards, each handled by handleMessage.                          *)
(***************************************************************************)
EXTENDS Integers, Sequences, FiniteSets, TLC

VARIABLES
    variant,          \* which revision of the class the client object is
    pc,               \* the client's queuePrompt call: new, queuing, queued, failed
    promptId,         \* this.promptId ("null" or the id the backend returned)
    onProgress,       \* this.onProgress is set (TRUE) or null (FALSE)
    workflow,         \* this.workflow
    executedNodes,    \* this.executedNodes
    totalNodes,       \* this.totalNodes
    startTime,        \* this.startTime, in ms
    totalWeight,      \* this.totalWeight (weighted revision)
    executedWeight,   \* this.executedWeight (weighted revision)
    currentNodeType,  \* this.currentNodeType (weighted revision)
    samplerProgress,  \* this.samplerProgress (weighted revision)
    samplerMax,       \* this.samplerMax (weighted revision)
    now,              \* Date.now(), in ms
    lastMsg,          \* the message the last step handled (NoMsg if the step handled none)
    emitted,          \* the calls of the progress callback the last step made
    prev,             \* the progress of the latest callback call before the last step
    scenarioPos,      \* how many messages of Scenario the client has handled, in order
    scenarioOut,      \* the progress values passed to the callback along Scenario
    submitted,        \* the workflow argument of the queuePrompt call
    healthy,          \* main's `healthy`: what the latest checkHealth returned
    revision,         \* the revision of index.ts the worker runs
    workflows,        \* the names of the workflows that loadWorkflow found
    jobs,             \* the job rows of the database, by id
    tokens,           \* user.tokens of the jobs' owner
    wpc,              \* where the worker is: start, poll, sleep, or a step of a job
    job,              \* the id of the job being processed ("none" if none)
    ws,               \* the job's client has a websocket (client.ws is not null)
    outputs,          \* the number of images in the outputs waitForCompletion returned
    uploaded,         \* the number of images uploaded so far
    inflight,         \* the row updates the progress callback started that have not landed
    ended,            \* the job whose processing the last step ended, and what had gone wrong
    waitPc,           \* where a waitForCompletion call is: idle, test, fetch, sleep, or how it ended
    waitStart,        \* waitForCompletion's `start`, in ms
    waitNow,          \* Date.now() during the call, in ms
    waitTimeout,      \* waitForCompletion's `timeout`, in ms
    history,          \* the backend's history entry of the prompt
    polled            \* what the latest fetch of the history gave the call

trackerVars == <<promptId, onProgress, workflow, executedNodes, totalNodes, startTime,
                 totalWeight, executedWeight, currentNodeType, samplerProgress, samplerMax>>

vars == <<variant, pc, promptId, onProgress, workflow, executedNodes, totalNodes, startTime,
          totalWeight, executedWeight, currentNodeType, samplerProgress, samplerMax,
          now, lastMsg, emitted, prev, scenarioPos, scenarioOut, submitted,
          healthy, revision, workflows, jobs, tokens, wpc, job, ws, outputs, uploaded,
          inflight, ended, waitPc, waitStart, waitNow, waitTimeout, history, polled>>

\* The ComfyUIClient object and what the steps record about it.
clientVars == <<variant, pc, promptId, onProgress, workflow, executedNodes, totalNodes,
                startTime, totalWeight, executedWeight, currentNodeType, samplerProgress,
                samplerMax, now, lastMsg, emitted, prev, scenarioPos, scenarioOut, submitted>>

\* The worker process of index.ts and its database.
workerVars == <<healthy, revision, workflows, jobs, tokens, wpc, job, ws, outputs, uploaded,
                inflight, ended>>

\* One call of waitForCompletion and the backend it polls.
waitVars == <<waitPc, waitStart, waitNow, waitTimeout, history, polled>>

----------------------------------------------------------------------------
(* Bounds *)

\* The clock advances at most this many ticks of TickMs.
MaxTicks == 2

\* The weighted revision's executedWeight grows with every 'executed' message;
\* the model stops delivering them to it beyond this weight, which is past
\* the total weight of each graph but the largest.
MaxWeight == 17

\* One tick of the clock, in ms: half a second, so that the rounding of
\* (Date.now() - startTime) / 1000 to whole seconds does something.
TickMs == 1000 \div 2

----------------------------------------------------------------------------
(* JavaScript numbers: a non-negative rational n/d, NaN or +Infinity.  The  *)
(* tracker only ever divides, multiplies and adds non-negative numbers.     *)

Num(n) == [k |-> "num", n |-> n, d |-> 1]
Frac(n, d) == [k |-> "num", n |-> n, d |-> d]
NaN == [k |-> "nan", n |-> 0, d |-> 1]
Infinity == [k |-> "inf", n |-> 0, d |-> 1]

IsNum(a) == a.k = "num"
IsZero(a) == a.k = "num" /\ a.n = 0

\* a / b
JSDiv(a, b) ==
    IF a.k = "nan" \/ b.k = "nan" THEN NaN
    ELSE IF a.k = "inf" THEN (IF b.k = "inf" THEN NaN ELSE Infinity)
    ELSE IF b.k = "inf" THEN Num(0)
    ELSE IF b.n = 0 THEN (IF a.n = 0 THEN NaN ELSE Infinity)
    ELSE Frac(a.n * b.d, a.d * b.n)

\* a * b
JSMul(a, b) ==
    IF a.k = "nan" \/ b.k = "nan" THEN NaN
    ELSE IF a.k = "inf" \/ b.k = "inf"
         THEN (IF IsZero(a) \/ IsZero(b) THEN NaN ELSE Infinity)
    ELSE Frac(a.n * b.n, a.d * b.d)

\* a + b
JSAdd(a, b) ==
    IF a.k = "nan" \/ b.k = "nan" THEN NaN
    ELSE IF a.k = "inf" \/ b.k = "inf" THEN Infinity
    ELSE Frac(a.n * b.d + b.n * a.d, a.d * b.d)

\* Math.round(a): the nearest integer, a half rounded up
MathRound(a) ==
    IF a.k = "num" THEN Num((2 * a.n + a.d) \div (2 * a.d)) ELSE a

\* a < b
JSLess(a, b) ==
    IF a.k = "nan" \/ b.k = "nan" THEN FALSE
    ELSE IF a.k = "inf" THEN FALSE
    ELSE IF b.k = "inf" THEN TRUE
    ELSE a.n * b.d < b.n * a.d

\* Math.min(a, b)
MathMin(a, b) ==
    IF a.k = "nan" \/ b.k = "nan" THEN NaN
    ELSE IF JSLess(b, a) THEN b ELSE a

\* Math.max(a, b) of two integers
MathMax(a, b) == IF a < b THEN b ELSE a

\* Math.round(x / 1000) of an integer number x >= 0 of ms
RoundSeconds(ms) == (2 * ms + 1000) \div 2000

----------------------------------------------------------------------------
(* Node ids, workflows and messages *)

\* A value found where a message should hold a node id: a string, given by
\* its segments between ':' ("74:62" is <<"74", "62">>), a number, or null.
Str(segs) == [t |-> "str", segs |-> segs]
NumId == [t |-> "num", segs |-> <<"5">>]
Null == [t |-> "null", segs |-> <<>>]
Undefined == [t |-> "undefined", segs |-> <<>>]

\* nodeId.split(':')[0]
BaseId(nodeId) == nodeId.segs[1]

\* Whether a JavaScript value is truthy (a non-empty string, a non-zero number).
Truthy(v) == v.t = "num" \/ (v.t = "str" /\ v.segs # <<"">>)

\* NODE_STAGES, for the class types that the workflows and messages below use
NODE_STAGES ==
    [c \in {"UNETLoader", "KSampler", "RenderMesh8Directions", "ImageTo3DMesh", "SaveImage"} |->
        CASE c = "UNETLoader" -> "Loading Flux model"
          [] c = "KSampler" -> "Generating image"
          [] c = "RenderMesh8Directions" -> "Rendering 8 directions"
          [] c = "ImageTo3DMesh" -> "Creating 3D mesh"
          [] c = "SaveImage" -> "Saving image"]

\* NODE_WEIGHTS (weighted revision), for the same class types
NODE_WEIGHTS ==
    [c \in {"UNETLoader", "KSampler", "RenderMesh8Directions", "ImageTo3DMesh", "SaveImage"} |->
        CASE c = "UNETLoader" -> 5
          [] c = "KSampler" -> 15
          [] c = "RenderMesh8Directions" -> 10
          [] c = "ImageTo3DMesh" -> 25
          [] c = "SaveImage" -> 1]

\* NODE_WEIGHTS[t] || 1
WeightOf(t) == IF t \in DOMAIN NODE_WEIGHTS THEN NODE_WEIGHTS[t] ELSE 1

\* NODE_STAGES[t] || t || fallback
StageOf(t, fallback) ==
    IF t \in DOMAIN NODE_STAGES THEN NODE_STAGES[t]
    ELSE IF t # "" THEN t ELSE fallback

\* The workflows a job may submit: node id -> class_type.
WfEmpty == [id \in {} |-> ""]
WfABC == [id \in {"A", "B", "C"} |->
             IF id = "B" THEN "ImageTo3DMesh" ELSE "RenderMesh8Directions"]
Wf74 == [id \in {"74", "5"} |-> IF id = "74" THEN "KSampler" ELSE "MyCustomNode"]
Workflows == {WfEmpty, WfABC, Wf74}

NoWorkflow == [isNull |-> TRUE, graph |-> WfEmpty]
Workflow(g) == [isNull |-> FALSE, graph |-> g]

\* A websocket message: text that JSON.parse rejects, or an object
\* { type, data: payload } with the payload's fields.
Msg(type, pid, node, nodesPresent, nodes, value, max, class_type) ==
    [parseOk |-> TRUE, type |-> type, hasPayload |-> TRUE, prompt_id |-> pid,
     node |-> node, nodesPresent |-> nodesPresent, nodes |-> nodes,
     value |-> value, max |-> max, class_type |-> class_type]

Plain(type, pid) == Msg(type, pid, Undefined, FALSE, <<>>, 0, 0, "")
BadJSON == [Plain("", "") EXCEPT !.parseOk = FALSE, !.hasPayload = FALSE]
NoPayload(type) == [Plain(type, "") EXCEPT !.hasPayload = FALSE]
NoMsg == [Plain("none", "") EXCEPT !.parseOk = FALSE, !.hasPayload = FALSE]

ExecutionStart(pid) == Plain("execution_start", pid)
ExecutionCached(pid, nodes) == Msg("execution_cached", pid, Undefined, TRUE, nodes, 0, 0, "")
Executing(pid, node) == Msg("executing", pid, node, FALSE, <<>>, 0, 0, "")
Executed(pid, node, class_type) == Msg("executed", pid, node, FALSE, <<>>, 0, 0, class_type)
Progress(pid, value, max) == Msg("progress", pid, Undefined, FALSE, <<>>, value, max, "")
ExecutionError(pid) == Plain("execution_error", pid)

\* The id the backend gives the client's prompt, and the id of someone else's.
OwnId == "p1"
OtherId == "p2"

CachedLists ==
    { <<>>, <<Str(<<"A">>)>>, <<Str(<<"B">>), Str(<<"A">>)>>,
      <<Str(<<"74", "62">>), Str(<<"74", "63">>)>>,
      <<Str(<<"C">>), NumId, Str(<<"5">>)>> }

ExecutedIds ==
    { Str(<<"A">>), Str(<<"B">>), Str(<<"C">>), Str(<<"74", "62">>), Str(<<"74", "63">>),
      NumId, Undefined }

Steps == { <<5, 10>>, <<2, 10>>, <<12, 10>>, <<0, 0>>, <<3, 0>> }

\* Messages of every type for the prompt of somebody else.
OtherMessages ==
    { ExecutionStart(OtherId), ExecutionError(OtherId),
      ExecutionCached(OtherId, <<Str(<<"A">>)>>),
      Executing(OtherId, Null), Executing(OtherId, Str(<<"A">>)),
      Executed(OtherId, Str(<<"B">>), ""), Progress(OtherId, 5, 10) }

\* Messages that are no well-formed message of a known type.
OddMessages == {BadJSON, NoPayload("progress"), Plain("status", OwnId)}

\* The messages delivered to the node-count revision.
Messages ==
    OddMessages \cup OtherMessages
    \cup { ExecutionStart(OwnId), ExecutionError(OwnId), Plain("execution_cached", OwnId),
           Executing(OwnId, Null), Executing(OwnId, Str(<<"A">>)) }
    \cup { ExecutionCached(OwnId, l) : l \in CachedLists }
    \cup { Executed(OwnId, n, "") : n \in ExecutedIds }
    \cup { Progress(OwnId, s[1], s[2]) : s \in Steps }

\* The messages delivered to the weighted revision; an 'executed' message may
\* carry output.class_type.
MessagesW ==
    OddMessages \cup OtherMessages
    \cup { ExecutionStart(OwnId), ExecutionError(OwnId),
           Executing(OwnId, Null), Executing(OwnId, Str(<<"A">>)),
           ExecutionCached(OwnId, <<Str(<<"A">>)>>),
           Executed(OwnId, Str(<<"A">>), "UNETLoader"),
           Executed(OwnId, Str(<<"B">>), ""), Executed(OwnId, Str(<<"C">>), ""),
           Executed(OwnId, NumId, ""),
           ExecutionCached(OwnId, <<Str(<<"74", "62">>), Str(<<"74", "63">>)>>),
           Progress(OwnId, 5, 10), Progress(OwnId, 0, 0) }

----------------------------------------------------------------------------
(* The node-count revision of ComfyUIClient (comfyui.ts lines 318-539) *)

\* A slip in the upper comparison: progress > 0 && progress <= 100
InEstimateRangeUpTo100(progress) == JSLess(Num(0), progress) /\ ~JSLess(Num(100), progress)

\* reportProgress: progress > 0 && progress < 100
InEstimateRange(progress) == JSLess(Num(0), progress) /\ JSLess(progress, Num(100))

\* A slip in the parentheses: Math.round(elapsedSeconds / progress) * 100
EstimatedTotalOfRoundedRatio(elapsedSeconds, progress) ==
    JSMul(MathRound(JSDiv(Num(elapsedSeconds), progress)), Num(100)).n

\* reportProgress: Math.round((elapsedSeconds / progress) * 100)
EstimatedTotal(elapsedSeconds, progress) ==
    MathRound(JSMul(JSDiv(Num(elapsedSeconds), progress), Num(100))).n

\* reportProgress(progress, stage): the calls of the callback it makes
reportProgress(progress, stage) ==
    IF ~onProgress THEN <<>>
    ELSE LET elapsedSeconds == RoundSeconds(now - startTime)
             estimatedTotalSeconds ==
                 IF InEstimateRange(progress)
                 THEN EstimatedTotal(elapsedSeconds, progress)
                 ELSE 0
             estimatedRemainingSeconds ==
                 IF InEstimateRange(progress)
                 THEN MathMax(0, estimatedTotalSeconds - elapsedSeconds)
                 ELSE 0
         IN << [progress |-> progress, stage |-> stage,
                elapsedSeconds |-> elapsedSeconds,
                estimatedTotalSeconds |-> estimatedTotalSeconds,
                estimatedRemainingSeconds |-> estimatedRemainingSeconds] >>

\* getNodeClassType(nodeId)
getNodeClassType(nodeId) ==
    IF workflow.isNull THEN ""
    ELSE IF BaseId(nodeId) \in DOMAIN workflow.graph
         THEN workflow.graph[BaseId(nodeId)]
         ELSE ""

\* Math.min(99, Math.round((size / this.totalNodes) * 100))
CountProgress(size) ==
    MathMin(Num(99), MathRound(JSMul(JSDiv(Num(size), Num(totalNodes)), Num(100))))

\* updateProgress(lastNodeId), with this.executedNodes = nodes
updateProgress(nodes, lastNodeId) ==
    LET progress == CountProgress(Cardinality(nodes))
        stage == IF Truthy(lastNodeId)
                 THEN StageOf(getNodeClassType(lastNodeId), "Processing...")
                 ELSE "Processing..."
    IN reportProgress(progress, stage)

\* case 'execution_cached': the loop over payload.nodes.  nodeId.split throws
\* on an entry that is no string, and the entries before it stay added.
RECURSIVE AddCached(_, _)
AddCached(nodes, list) ==
    IF list = <<>> THEN [nodes |-> nodes, threw |-> FALSE]
    ELSE IF Head(list).t # "str" THEN [nodes |-> nodes, threw |-> TRUE]
    ELSE AddCached(nodes \cup {BaseId(Head(list))}, Tail(list))

\* case 'progress': the progress value of a step message
StepProgress(value, max) ==
    LET baseProgress ==
            MathRound(JSMul(JSDiv(Num(Cardinality(executedNodes)), Num(totalNodes)), Num(100)))
        stepProgress ==
            JSMul(JSDiv(Num(value), Num(max)), JSDiv(Num(100), Num(totalNodes)))
    IN MathMin(Num(99), MathRound(JSAdd(baseProgress, stepProgress)))

\* `Generating (step ${payload.value}/${payload.max})`
StepStage(value, max) ==
    "Generating (step " \o ToString(value) \o "/" \o ToString(max) \o ")"

\* A handler that forgets to compare the prompt ids
TrackedAlways(msg) == TRUE

\* Whether the message belongs to the tracked prompt: payload.prompt_id === this.promptId
Tracked(msg) == msg.prompt_id = promptId

\* The types whose case reads the payload.
PayloadTypes == {"execution_start", "execution_cached", "executing", "executed",
                 "progress", "execution_error"}

\* What the try block of handleMessage does to the message: the new
\* executedNodes and the calls of the callback.  An exception (JSON.parse, a
\* field of an undefined payload, split of a non-string) ends the block.
Unchanged == [nodes |-> executedNodes, out |-> <<>>]

\* An error case that also reports to the callback
OnExecutionErrorReports == [nodes |-> executedNodes, out |-> reportProgress(Num(0), "Error")]

\* case 'execution_error': console.error for the tracked prompt, nothing else
OnExecutionError == Unchanged

Handle(msg) ==
    IF ~msg.parseOk THEN Unchanged
    ELSE IF msg.type \notin PayloadTypes THEN Unchanged
    ELSE IF ~msg.hasPayload THEN Unchanged
    ELSE IF ~Tracked(msg) THEN Unchanged
    ELSE CASE msg.type = "execution_start" ->
                [nodes |-> {}, out |-> reportProgress(Num(0), "Starting...")]
           [] msg.type = "execution_cached" ->
                IF ~msg.nodesPresent THEN Unchanged
                ELSE LET r == AddCached(executedNodes, msg.nodes)
                     IN [nodes |-> r.nodes,
                         out |-> IF r.threw THEN <<>>
                                 ELSE updateProgress(r.nodes, Undefined)]
           [] msg.type = "executing" ->
                IF msg.node = Null
                THEN [nodes |-> executedNodes, out |-> reportProgress(Num(100), "Complete")]
                ELSE Unchanged
           [] msg.type = "executed" ->
                IF ~Truthy(msg.node) THEN Unchanged
                ELSE IF msg.node.t # "str" THEN Unchanged
                ELSE LET baseId == BaseId(msg.node)
                         nodes == executedNodes \cup {baseId}
                     IN [nodes |-> nodes, out |-> updateProgress(nodes, Str(<<baseId>>))]
           [] msg.type = "progress" ->
                [nodes |-> executedNodes,
                 out |-> reportProgress(StepProgress(msg.value, msg.max),
                                        StepStage(msg.value, msg.max))]
           [] msg.type = "execution_error" -> OnExecutionError

----------------------------------------------------------------------------
(* The weighted revision of ComfyUIClient (comfyui.ts lines 57-273) *)

\* Math.min(99, Math.round((weight / this.totalWeight) * 100))
WeightProgress(weight) ==
    MathMin(Num(99), MathRound(JSMul(JSDiv(Num(weight), Num(totalWeight)), Num(100))))

\* reportProgress(stage, progress) with this.executedWeight = weight;
\* given is FALSE when the call passes no progress
reportProgressW(stage, progress, given, weight) ==
    IF ~onProgress THEN <<>>
    ELSE << [progress |-> IF given THEN progress ELSE WeightProgress(weight),
             stage |-> stage] >>

\* case 'progress' of the weighted revision: the progress value of a step message
StepProgressW(value, max) ==
    LET baseProgress ==
            MathRound(JSMul(JSDiv(Num(executedWeight), Num(totalWeight)), Num(100)))
        stepProgress ==
            JSMul(JSMul(JSDiv(Num(value), Num(max)),
                        JSDiv(Num(NODE_WEIGHTS["KSampler"]), Num(totalWeight))),
                  Num(100))
    IN MathMin(Num(99), MathRound(JSAdd(baseProgress, stepProgress)))

\* `Generating image (Step ${payload.value}/${payload.max})`
StepStageW(value, max) ==
    "Generating image (Step " \o ToString(value) \o "/" \o ToString(max) \o ")"

\* The set after the loop of case 'execution_cached': this.executedNodes.add(nodeId)
AddCachedW(nodes, list) == nodes \cup { list[i] : i \in 1..Len(list) }

\* case 'executed': the weight added for the node
ExecutedWeight(msg) ==
    WeightOf(IF msg.class_type # "" THEN msg.class_type ELSE currentNodeType)

UnchangedW ==
    [nodes |-> executedNodes, weight |-> executedWeight, nodeType |-> currentNodeType,
     sp |-> samplerProgress, sm |-> samplerMax, out |-> <<>>]

\* What the try block of the weighted handleMessage does to the message.
HandleW(msg) ==
    IF ~msg.parseOk THEN UnchangedW
    ELSE IF msg.type \notin PayloadTypes THEN UnchangedW
    ELSE IF ~msg.hasPayload THEN UnchangedW
    ELSE IF ~Tracked(msg) THEN UnchangedW
    ELSE CASE msg.type = "execution_start" ->
                [UnchangedW EXCEPT !.nodes = {}, !.weight = 0,
                                   !.out = reportProgressW("Starting...", Num(0), FALSE, 0)]
           [] msg.type = "execution_cached" ->
                IF ~msg.nodesPresent THEN UnchangedW
                ELSE [UnchangedW EXCEPT !.nodes = AddCachedW(executedNodes, msg.nodes)]
           [] msg.type = "executing" ->
                IF msg.node = Null
                THEN [UnchangedW EXCEPT !.out = reportProgressW("Complete", Num(100), TRUE,
                                                                executedWeight)]
                ELSE [UnchangedW EXCEPT !.nodeType = "", !.sp = 0, !.sm = 0]
           [] msg.type = "executed" ->
                IF ~Truthy(msg.node) THEN UnchangedW
                ELSE LET nodeType == IF msg.class_type # "" THEN msg.class_type
                                     ELSE currentNodeType
                         weight == executedWeight + ExecutedWeight(msg)
                     IN [UnchangedW EXCEPT
                            !.nodes = executedNodes \cup {msg.node},
                            !.weight = weight,
                            !.out = reportProgressW(StageOf(nodeType, "Processing"),
                                                    WeightProgress(weight), TRUE, weight)]
           [] msg.type = "progress" ->
                [UnchangedW EXCEPT
                    !.sp = msg.value, !.sm = msg.max,
                    !.out = reportProgressW(StepStageW(msg.value, msg.max),
                                            StepProgressW(msg.value, msg.max), TRUE,
                                            executedWeight)]
           [] msg.type = "execution_error" -> UnchangedW

\* The sum of NODE_WEIGHTS[node.class_type] || 1 over Object.values(workflow)
RECURSIVE SumWeights(_, _)
SumWeights(wf, ids) ==
    IF ids = {} THEN 0
    ELSE LET id == CHOOSE i \in ids : TRUE
         IN WeightOf(wf[id]) + SumWeights(wf, ids \ {id})

----------------------------------------------------------------------------
(* What the steps record for the properties *)

NoPrev == [set |-> FALSE, p |-> Num(0)]

\* The latest progress passed to the callback, after a step that made the calls out.
NextPrev == IF emitted = <<>> THEN prev ELSE [set |-> TRUE, p |-> emitted[Len(emitted)].progress]

\* The example of spec.md section 8.6 on the graph WfABC: the messages the
\* client handles, in this order and no others, once queuePrompt has returned.
Scenario ==
    << ExecutionStart(OwnId),
       ExecutionCached(OwnId, <<Str(<<"A">>)>>),
       Executed(OwnId, Str(<<"B">>), ""),
       Progress(OwnId, 5, 10),
       Executed(OwnId, Str(<<"C">>), ""),
       Executing(OwnId, Null) >>

Observe(msg, out) ==
    /\ lastMsg' = msg
    /\ emitted' = out
    /\ prev' = NextPrev
    /\ IF /\ pc = "queued"
          /\ scenarioPos >= 0 /\ scenarioPos < Len(Scenario)
          /\ msg = Scenario[scenarioPos + 1]
       THEN /\ scenarioPos' = scenarioPos + 1
            /\ scenarioOut' = scenarioOut \o [i \in 1..Len(out) |-> out[i].progress]
       ELSE /\ scenarioPos' = -1
            /\ scenarioOut' = <<>>

----------------------------------------------------------------------------
(* Steps *)

Variants == {"weighted", "counted"}

ClientInit ==
    /\ pc = "new"
    /\ promptId = "null"
    /\ onProgress = FALSE
    /\ workflow = NoWorkflow
    /\ executedNodes = {}
    /\ totalNodes = 0
    /\ startTime = 0
    /\ totalWeight = 0
    /\ executedWeight = 0
    /\ currentNodeType = ""
    /\ samplerProgress = 0
    /\ samplerMax = 0
    /\ now = 0
    /\ lastMsg = NoMsg
    /\ emitted = <<>>
    /\ prev = NoPrev
    /\ scenarioPos = -1
    /\ scenarioOut = <<>>
    /\ submitted = WfEmpty

\* history[promptId] is undefined: the backend has no entry for the prompt yet.
NoEntry == [present |-> FALSE, completed |-> FALSE, status_str |-> ""]

\* No fetch of the history has given the call an entry.
NoPoll == [ok |-> FALSE, completed |-> FALSE, status_str |-> ""]

\* No waitForCompletion call is under way.
WaitIdle ==
    /\ waitPc = "idle"
    /\ waitStart = 0
    /\ waitNow = 0
    /\ waitTimeout = 0
    /\ history = NoEntry
    /\ polled = NoPoll

\* No job: the value of `ended` when the last step ended no job's processing.
NoEnd == [job |-> "none", cause |-> ""]

\* One client object of either revision, and no worker around it.
Init ==
    /\ variant \in Variants
    /\ ClientInit
    /\ revision = "batch"
    /\ workflows = {}
    /\ jobs = <<>>
    /\ tokens = 0
    /\ wpc = "start"
    /\ job = "none"
    /\ ws = FALSE
    /\ outputs = 0
    /\ uploaded = 0
    /\ inflight = {}
    /\ ended = NoEnd
    /\ healthy = FALSE
    /\ WaitIdle

\* queuePrompt(workflow, onProgress) up to its await of fetch
queuePrompt(wf, cb) ==
    /\ variant = "counted"
    /\ pc = "new"
    /\ pc' = "queuing"
    /\ workflow' = Workflow(wf)
    /\ onProgress' = cb
    /\ executedNodes' = {}
    /\ totalNodes' = Cardinality(DOMAIN wf)
    /\ startTime' = now
    /\ lastMsg' = NoMsg
    /\ emitted' = <<>>
    /\ prev' = NoPrev
    /\ scenarioPos' = IF wf = WfABC /\ cb THEN 0 ELSE -1
    /\ scenarioOut' = <<>>
    /\ submitted' = wf
    /\ UNCHANGED <<variant, promptId, totalWeight, executedWeight, currentNodeType,
                   samplerProgress, samplerMax, now>>
    /\ UNCHANGED <<workerVars, waitVars>>

\* queuePrompt after the await: the response is not ok (throw) or carries the prompt id
queueResponse(ok) ==
    /\ pc = "queuing"
    /\ pc' = IF ok THEN "queued" ELSE "failed"
    /\ promptId' = IF ok THEN OwnId ELSE promptId
    /\ lastMsg' = NoMsg
    /\ emitted' = <<>>
    /\ prev' = NextPrev
    /\ UNCHANGED <<variant, onProgress, workflow, executedNodes, totalNodes, startTime,
                   totalWeight, executedWeight, currentNodeType, samplerProgress, samplerMax,
                   now, scenarioPos, scenarioOut, submitted>>
    /\ UNCHANGED <<workerVars, waitVars>>

\* The 'message' handler of the websocket: handleMessage(data.toString())
handleMessage(msg) ==
    /\ variant = "counted"
    /\ LET r == Handle(msg)
       IN /\ executedNodes' = r.nodes
          /\ Observe(msg, r.out)
    /\ UNCHANGED <<variant, pc, promptId, onProgress, workflow, totalNodes, startTime,
                   totalWeight, executedWeight, currentNodeType, samplerProgress, samplerMax,
                   now, submitted>>
    /\ UNCHANGED <<workerVars, waitVars>>

\* queuePrompt(workflow, onProgress) of the weighted revision, up to its await of fetch
queuePromptW(wf, cb) ==
    /\ variant = "weighted"
    /\ pc = "new"
    /\ pc' = "queuing"
    /\ onProgress' = cb
    /\ executedNodes' = {}
    /\ executedWeight' = 0
    /\ totalWeight' = SumWeights(wf, DOMAIN wf)
    /\ lastMsg' = NoMsg
    /\ emitted' = <<>>
    /\ prev' = NoPrev
    /\ scenarioPos' = IF wf = WfABC /\ cb THEN 0 ELSE -1
    /\ scenarioOut' = <<>>
    /\ submitted' = wf
    /\ UNCHANGED <<variant, promptId, workflow, totalNodes, startTime, currentNodeType,
                   samplerProgress, samplerMax, now>>
    /\ UNCHANGED <<workerVars, waitVars>>

\* The 'message' handler of the weighted revision's websocket
handleMessageW(msg) ==
    /\ variant = "weighted"
    /\ LET r == HandleW(msg)
       IN /\ r.weight <= MaxWeight
          /\ executedNodes' = r.nodes
          /\ executedWeight' = r.weight
          /\ currentNodeType' = r.nodeType
          /\ samplerProgress' = r.sp
          /\ samplerMax' = r.sm
          /\ Observe(msg, r.out)
    /\ UNCHANGED <<variant, pc, promptId, onProgress, workflow, totalNodes, startTime,
                   totalWeight, now, submitted>>
    /\ UNCHANGED <<workerVars, waitVars>>

\* Time passes.  The client reads the clock in queuePrompt first, and
\* afterwards only as the time since then: the clock of the model starts
\* with that call.
Tick ==
    /\ variant = "counted"
    /\ pc # "new"
    /\ now < MaxTicks * TickMs
    /\ now' = now + TickMs
    /\ lastMsg' = NoMsg
    /\ emitted' = <<>>
    /\ prev' = NextPrev
    /\ UNCHANGED <<variant, pc, promptId, onProgress, workflow, executedNodes, totalNodes,
                   startTime, totalWeight, executedWeight, currentNodeType, samplerProgress,
                   samplerMax, scenarioPos, scenarioOut, submitted>>
    /\ UNCHANGED <<workerVars, waitVars>>

Next ==
    \/ \E wf \in Workflows, cb \in BOOLEAN : queuePrompt(wf, cb)
    \/ \E ok \in BOOLEAN : queueResponse(ok)
    \/ \E msg \in Messages : handleMessage(msg)
    \/ \E wf \in Workflows, cb \in BOOLEAN : queuePromptW(wf, cb)
    \/ \E msg \in MessagesW : handleMessageW(msg)
    \/ Tick

Spec == Init /\ [][Next]_vars

----------------------------------------------------------------------------
(* Properties *)

\* The step handled a message of the tracked prompt with the given type.
HandledOwn(type) ==
    lastMsg.parseOk /\ lastMsg.hasPayload /\ lastMsg.type = type /\ lastMsg.prompt_id = promptId

\* The step handled the completion message: 'executing' with node = null.
HandledCompletion == HandledOwn("executing") /\ lastMsg.node = Null

\* a <= b for JavaScript numbers that are numbers
JSLeq(a, b) == IsNum(a) /\ IsNum(b) /\ ~JSLess(b, a)

\* C1: between two execution_start messages, the progress values passed to
\* the callback never go down: a value passed by a message other than
\* execution_start is not below the value passed before it.
C1_Monotonic ==
    (emitted # <<>> /\ prev.set /\ lastMsg.type # "execution_start")
        => ~JSLess(emitted[1].progress, prev.p)

\* C2: a progress value passed for the completion message is 100; a value
\* passed for any other message is a number of at most 99.
C2_Bounded ==
    \A i \in 1..Len(emitted) :
        IF HandledCompletion
        THEN emitted[i].progress = Num(100)
        ELSE JSLeq(emitted[i].progress, Num(99))

\* C2, leaving out the values that are no numbers: the part of the claim
\* that the clamp to 99 secures.
C2_BoundedWhenNumber ==
    \A i \in 1..Len(emitted) :
        IF HandledCompletion
        THEN emitted[i].progress = Num(100)
        ELSE IsNum(emitted[i].progress) => JSLeq(emitted[i].progress, Num(99))

\* The node id of an 'executed' message was already in executedNodes: by its
\* base id in the node-count revision, as it is in the weighted one.
AlreadyExecuted(msg) ==
    /\ msg.node.t = "str"
    /\ IF variant = "counted" THEN BaseId(msg.node) \in executedNodes
       ELSE msg.node \in executedNodes

\* C3: an 'executed' message of the tracked prompt for a node id observed
\* before leaves the completed weight and the completed count as they were.
C3_IdempotentAccounting ==
    [][ ( /\ lastMsg'.type = "executed"
          /\ lastMsg'.prompt_id = promptId
          /\ AlreadyExecuted(lastMsg') )
        => ( /\ executedWeight' = executedWeight
             /\ Cardinality(executedNodes') = Cardinality(executedNodes) ) ]_vars

\* C4: after the six messages of Scenario on the graph WfABC the callback
\* has been passed exactly 0, 20, 80, 90, 99, 100.
C4_Scenario ==
    scenarioPos = Len(Scenario)
        => scenarioOut = <<Num(0), Num(20), Num(80), Num(90), Num(99), Num(100)>>

\* C5: after an execution_start message of the tracked prompt the completed
\* set is empty, the completed weight is 0, and what the callback was passed
\* is progress 0 with stage 'Starting...'.
C5_Reset ==
    HandledOwn("execution_start")
        => /\ executedNodes = {}
           /\ executedWeight = 0
           /\ Len(emitted) = (IF onProgress THEN 1 ELSE 0)
           /\ \A i \in 1..Len(emitted) :
                 emitted[i].progress = Num(0) /\ emitted[i].stage = "Starting..."

\* C6: a message whose prompt_id differs from this.promptId calls no
\* callback and changes no field of the client.
C6_OtherPromptIgnored ==
    [][ (lastMsg' # NoMsg /\ lastMsg'.parseOk /\ lastMsg'.hasPayload
         /\ lastMsg'.type \in PayloadTypes /\ lastMsg'.prompt_id # promptId)
        => (emitted' = <<>> /\ UNCHANGED trackerVars) ]_vars

\* C6's case: a client that tracks a prompt and has completed nodes is handed
\* an 'executed' message of another prompt.
C6_Witness ==
    /\ promptId = OwnId
    /\ executedNodes # {}
    /\ lastMsg = Executed(OtherId, Str(<<"B">>), "")

\* C7: every progress value passed to the callback is an integer in 0..100.
C7_IntegerRange ==
    \A i \in 1..Len(emitted) :
        /\ IsNum(emitted[i].progress)
        /\ emitted[i].progress.d = 1
        /\ emitted[i].progress.n \in 0..100

\* The submitted graph is empty: no nodes, no weight.
EmptyGraph == pc # "new" /\ totalNodes = 0 /\ totalWeight = 0

\* C8: on an empty graph every progress value computed from the totals (the
\* value of every message but the completion message) is 0.
C8_EmptyGraphZero ==
    (EmptyGraph /\ ~HandledCompletion)
        => \A i \in 1..Len(emitted) : emitted[i].progress = Num(0)

\* A message that is no well-formed message: invalid JSON, no payload, a
\* node id that is a number, a cached-nodes list with an entry that is no string.
Malformed(msg) ==
    \/ ~msg.parseOk
    \/ msg.type \in PayloadTypes /\ ~msg.hasPayload
    \/ msg.type = "executed" /\ msg.node.t = "num"
    \/ msg.type = "execution_cached" /\ msg.nodesPresent
       /\ \E i \in 1..Len(msg.nodes) : msg.nodes[i].t # "str"

\* C9: a malformed message calls no callback and changes no field of the client.
C9_MalformedIgnored ==
    [][ (lastMsg' # NoMsg /\ Malformed(lastMsg'))
        => (emitted' = <<>> /\ UNCHANGED trackerVars) ]_vars

\* C10: a call of the callback with progress 0 or 100 passes 0 for both
\* estimatedTotalSeconds and estimatedRemainingSeconds.
C10_EtaZeroAtBounds ==
    variant = "counted"
        => \A i \in 1..Len(emitted) :
              emitted[i].progress \in {Num(0), Num(100)}
                  => /\ emitted[i].estimatedTotalSeconds = 0
                     /\ emitted[i].estimatedRemainingSeconds = 0

\* C10's case: the callback is passed 100 a second or more after startTime.
C10_Witness ==
    /\ variant = "counted"
    /\ emitted # <<>>
    /\ emitted[1].progress = Num(100)
    /\ emitted[1].elapsedSeconds > 0

\* C11: a call of the callback with a progress p, 0 < p < 100, passes for
\* estimatedTotalSeconds the integer nearest to 100 * elapsedSeconds / p (a
\* half rounded up) and for estimatedRemainingSeconds what of it is left
\* after elapsedSeconds, which is never negative.
C11_EtaFormula ==
    variant = "counted"
        => \A i \in 1..Len(emitted) :
              InEstimateRange(emitted[i].progress)
                  => LET p == emitted[i].progress
                         e == emitted[i].elapsedSeconds
                         total == (200 * e * p.d + p.n) \div (2 * p.n)
                     IN /\ emitted[i].estimatedTotalSeconds = total
                        /\ emitted[i].estimatedRemainingSeconds =
                               (IF total > e THEN total - e ELSE 0)
                        /\ emitted[i].estimatedRemainingSeconds >= 0

\* C11's case: a progress strictly between 0 and 100 is passed a second or
\* more after startTime, and time remains.
C11_Witness ==
    /\ variant = "counted"
    /\ emitted # <<>>
    /\ InEstimateRange(emitted[1].progress)
    /\ emitted[1].elapsedSeconds > 0
    /\ emitted[1].estimatedRemainingSeconds > 0

\* C12: the elapsed time is counted from the latest execution_start message
\* of the tracked prompt: once the client has handled one, startTime is the
\* time of that moment, and the call the message makes passes elapsedSeconds 0.
C12_StartTimeAtExecutionStart ==
    (variant = "counted" /\ HandledOwn("execution_start"))
        => /\ startTime = now
           /\ \A i \in 1..Len(emitted) : emitted[i].elapsedSeconds = 0

\* The class type of a node id in the submitted graph ('' if it has none).
GraphType(id) == IF id \in DOMAIN submitted THEN submitted[id] ELSE ""

\* The total of the weights of the submitted graph's nodes.
GraphWeight == SumWeights(submitted, DOMAIN submitted)

\* The parent ids of the completed nodes.
CompletedBase ==
    IF variant = "counted" THEN executedNodes
    ELSE { BaseId(n) : n \in { x \in executedNodes : x.segs # <<>> } }

\* The weights, by their types in the submitted graph, of a set of node ids.
RECURSIVE WeightOfNodes(_)
WeightOfNodes(ids) ==
    IF ids = {} THEN 0
    ELSE LET id == CHOOSE i \in ids : TRUE
         IN WeightOf(GraphType(id)) + WeightOfNodes(ids \ {id})

\* min(99, round(100 * weight / GraphWeight))
ProgressOfWeight(weight) == MathMin(Num(99), MathRound(Frac(100 * weight, GraphWeight)))

\* C13: an execution_cached message of the tracked prompt with a list of
\* node ids completes the parent id of each, and the callback is called
\* exactly once, with stage 'Processing...' and the progress that the weights
\* of the completed nodes give.
C13_CachedAccounting ==
    ( /\ HandledOwn("execution_cached") /\ lastMsg.nodesPresent
      /\ \A i \in 1..Len(lastMsg.nodes) : lastMsg.nodes[i].t = "str"
      /\ onProgress /\ GraphWeight > 0 )
        => /\ \A i \in 1..Len(lastMsg.nodes) : BaseId(lastMsg.nodes[i]) \in CompletedBase
           /\ Len(emitted) = 1
           /\ emitted[1].stage = "Processing..."
           /\ emitted[1].progress = ProgressOfWeight(WeightOfNodes(CompletedBase))

\* C14: an 'executed' message of the tracked prompt for node n completes n
\* with the weight of n's type in the submitted graph, and the callback is
\* passed min(99, round(100 * completed weight / total weight)) with the
\* stage label of n's type (the type itself, then a placeholder, when the
\* table has none).
C14_ExecutedAccounting ==
    ( /\ HandledOwn("executed") /\ lastMsg.node.t = "str" /\ Truthy(lastMsg.node)
      /\ onProgress /\ GraphWeight > 0 )
        => /\ BaseId(lastMsg.node) \in CompletedBase
           /\ variant = "weighted" => executedWeight = WeightOfNodes(CompletedBase)
           /\ Len(emitted) = 1
           /\ emitted[1].progress = ProgressOfWeight(WeightOfNodes(CompletedBase))
           /\ emitted[1].stage \in
                 { StageOf(GraphType(BaseId(lastMsg.node)), placeholder) :
                      placeholder \in {"Processing", "Processing..."} }

\* The completed set holds the node id as such (the weighted revision's set
\* holds what the messages carried, the node-count one's holds strings).
Holds(id) ==
    IF variant = "counted" THEN id \in executedNodes ELSE Str(<<id>>) \in executedNodes

\* The node ids an 'executed' or execution_cached message names.
NamedIds(msg) ==
    IF msg.type = "executed" THEN {msg.node}
    ELSE { msg.nodes[i] : i \in 1..Len(msg.nodes) }

\* C15: a node id '<parent>:<child>' counts as its parent: the completed set
\* never holds a composite id, so that '74:62' and '74:63' complete node 74
\* once; after an 'executed' or execution_cached message of the tracked
\* prompt the set holds the parent of each id named, and an 'executed'
\* message is labelled by the parent's type in the submitted graph.
C15_CompositeIds ==
    /\ \A x \in executedNodes : variant = "weighted" => Len(x.segs) = 1
    /\ ( /\ HandledOwn("executed") \/ (HandledOwn("execution_cached") /\ lastMsg.nodesPresent)
         /\ \A id \in NamedIds(lastMsg) : id.t = "str" /\ Truthy(id) )
           => \A id \in NamedIds(lastMsg) : Holds(BaseId(id))
    /\ ( /\ HandledOwn("executed") /\ lastMsg.node.t = "str" /\ Len(lastMsg.node.segs) > 1
         /\ onProgress )
           => /\ Len(emitted) = 1
              /\ emitted[1].stage \in
                    { StageOf(GraphType(BaseId(lastMsg.node)), placeholder) :
                         placeholder \in {"Processing", "Processing..."} }

\* C15 in the node-count revision, where it holds.
C15_CompositeIdsCounted == variant = "counted" => C15_CompositeIds

\* The candidates for a step message: the completed weight plus the share
\* value/max of the weight of a node of the graph that is not complete.
StepCandidates(value, max) ==
    { MathMin(Num(99),
              MathRound(Frac(100 * (WeightOfNodes(CompletedBase) * max
                                       + WeightOf(submitted[id]) * value),
                             GraphWeight * max))) :
         id \in DOMAIN submitted \ CompletedBase }

\* C16: a step message (value, max) of the tracked prompt, with max > 0 and
\* a graph of positive weight, passes the callback the completed weight plus
\* value/max of the sampling node's weight, over the total weight, in
\* percent and at most 99, with stage 'Generating (step <value>/<max>)'.
C16_StepProgress ==
    ( /\ HandledOwn("progress") /\ lastMsg.max > 0 /\ lastMsg.value <= lastMsg.max
      /\ onProgress /\ GraphWeight > 0 /\ DOMAIN submitted \ CompletedBase # {} )
        => /\ Len(emitted) = 1
           /\ emitted[1].progress \in StepCandidates(lastMsg.value, lastMsg.max)
           /\ emitted[1].stage = StepStage(lastMsg.value, lastMsg.max)

\* The total that the client divides by: this.totalWeight, this.totalNodes
\* in the node-count revision.
Denominator == IF variant = "weighted" THEN totalWeight ELSE totalNodes

\* C17: once queuePrompt has been called, the total the progress is divided
\* by is the sum of the weights of the submitted graph's nodes.
C17_TotalWeight == pc # "new" => Denominator = GraphWeight

\* C17 in the weighted revision, where it holds.
C17_TotalWeightWeighted == variant = "weighted" => C17_TotalWeight

\* No message, response or tick changes the total once it is set.
C17_TotalFixed == [][pc # "new" => Denominator' = Denominator]_vars

\* C18: an execution_error message of the tracked prompt calls no callback
\* and changes no field of the client: the completed set, the completed
\* weight and the totals stay as they were.
C18_ErrorSilent ==
    [][ ( /\ lastMsg'.parseOk /\ lastMsg'.hasPayload
          /\ lastMsg'.type = "execution_error" /\ lastMsg'.prompt_id = promptId )
        => (emitted' = <<>> /\ UNCHANGED trackerVars) ]_vars

\* C18's case: a client with a callback that tracks a prompt and has
\* completed nodes is handed the prompt's execution_error message.
C18_Witness ==
    /\ pc = "queued"
    /\ onProgress
    /\ executedNodes # {}
    /\ lastMsg = ExecutionError(OwnId)

----------------------------------------------------------------------------
(* The worker of src/src/index.ts: main, pollForJobs and the three job      *)
(* processors, in the revision that reads all 8 rotations from one batch    *)
(* output (lines 245-700, "batch") and in the one that maps output nodes    *)
(* to directions (lines 701-1046, "mapped").  A step runs the worker from   *)
(* one await to the next; the database accepts every write.                 *)

\* The progress callback's row updates that may be under way at once.
MaxInflight == 1

\* user.tokens of a new user
DefaultTokens == 25

\* The revisions of index.ts: the first, which serves the rotation table only
\* ("single"), the one that generates rotations as one batch ("batch"), and
\* the one that maps output nodes to directions ("mapped").
Revisions == {"single", "batch", "mapped"}

\* The keys of `workflows` whose file loadWorkflow found and parsed.
WorkflowSets == { {"rotate", "sprite", "texture"}, {"sprite", "texture"}, {"rotate"}, {} }

ROTATION_DIRECTIONS == <<"n", "ne", "e", "se", "s", "sw", "w", "nw">>

\* The maps of TEXTURE_OUTPUT_NODES, which are the requiredMaps
TEXTURE_MAPS == <<"basecolor", "normal", "height", "roughness", "metallic">>

\* The names under which a job of the kind stores its result URLs.
ResultNames(kind) ==
    CASE kind = "rotation" -> ROTATION_DIRECTIONS
      [] kind = "asset" -> <<"raw">>
      [] kind = "texture" -> TEXTURE_MAPS

\* A row as the application inserts it: pending, progress 0, no results.
NewJob(kind, createdAt, tokenCost, inputImageUrl) ==
    [kind |-> kind, createdAt |-> createdAt, tokenCost |-> tokenCost,
     inputImageUrl |-> inputImageUrl, status |-> "pending", progress |-> 0,
     currentStage |-> "", errorMessage |-> "", urls |-> {}]

\* The tables the worker may find: rotation jobs with and without an input
\* image, an asset job, a texture job.
JobTables ==
    { "r1" :> NewJob("rotation", 1, 8, TRUE),
      "r1" :> NewJob("rotation", 1, 8, FALSE),
      "r1" :> NewJob("rotation", 2, 8, TRUE) @@ "r2" :> NewJob("rotation", 1, 4, TRUE),
      "a1" :> NewJob("asset", 1, 2, TRUE),
      "t1" :> NewJob("texture", 1, 5, TRUE),
      "r1" :> NewJob("rotation", 3, 8, TRUE) @@ "a1" :> NewJob("asset", 1, 2, TRUE),
      "a1" :> NewJob("asset", 2, 2, TRUE) @@ "t1" :> NewJob("texture", 1, 5, TRUE) }

\* The numbers of images that the outputs of a finished prompt may hold.
OutputCounts == {0, 1, 7, 8, 9}

\* What waitForCompletion may end with: the outputs, or one of its two errors.
WaitOutcomes ==
    { [how |-> "completed", images |-> k] : k \in OutputCounts }
    \cup { [how |-> "error", images |-> 0], [how |-> "timeout", images |-> 0] }

\* The progress values a tracker passes to the callback.
TrackerProgress == {0, 100}

\* A query without the orderBy: any pending row of the table
PendingAnyOrder(kind) ==
    { j \in DOMAIN jobs : jobs[j].kind = kind /\ jobs[j].status = "pending" }

\* findMany({ where: status = 'pending', orderBy: asc(createdAt), limit: 1 })
Pending(kind) ==
    LET rows == { j \in DOMAIN jobs : jobs[j].kind = kind /\ jobs[j].status = "pending" }
    IN { j \in rows : \A k \in rows : jobs[j].createdAt <= jobs[k].createdAt }

\* A poll that takes the oldest pending job of all the tables instead
PickedOldestOfAll ==
    LET rows == { j \in DOMAIN jobs : /\ jobs[j].status = "pending"
                                      /\ revision = "single" => jobs[j].kind = "rotation" }
        oldest == { j \in rows : \A k \in rows : jobs[j].createdAt <= jobs[k].createdAt }
    IN IF oldest # {} THEN CHOOSE j \in oldest : TRUE ELSE "none"

\* The job that pollForJobs hands to its processor ("none" if none is pending).
Picked ==
    IF Pending("rotation") # {} THEN CHOOSE j \in Pending("rotation") : TRUE
    ELSE IF revision = "single" THEN "none"
    ELSE IF Pending("asset") # {} THEN CHOOSE j \in Pending("asset") : TRUE
    ELSE IF Pending("texture") # {} THEN CHOOSE j \in Pending("texture") : TRUE
    ELSE "none"

\* What a processor throws before its try block ('' if nothing).
ThrownBeforeTry(j) ==
    CASE jobs[j].kind = "rotation" ->
            IF revision = "single" THEN ""
            ELSE IF "rotate" \notin workflows THEN "Rotation workflow not loaded"
            ELSE IF revision = "batch" /\ ~jobs[j].inputImageUrl
                 THEN "No input image provided"
                 ELSE ""
      [] jobs[j].kind = "asset" ->
            IF "sprite" \notin workflows THEN "Sprite workflow not loaded" ELSE ""
      [] jobs[j].kind = "texture" -> ""

\* A finally block that leaves the client as it is
disconnectSkipped == ws' = ws

\* client.disconnect(): if (this.ws) { this.ws.close(); this.ws = null; }
disconnect == ws' = IF ws THEN FALSE ELSE ws

\* The catch and finally blocks of a processor, entered with the rows as they are.
Fail(rows, cause) ==
    /\ jobs' = [rows EXCEPT ![job].status = "failed", ![job].errorMessage = cause]
    /\ tokens' = tokens + jobs[job].tokenCost
    /\ disconnect
    /\ wpc' = "sleep"
    /\ job' = "none"
    /\ outputs' = 0
    /\ uploaded' = 0
    /\ ended' = [job |-> job, cause |-> cause]

\* An update to 'completed' that also adds the job's tokens to the user's
CompleteRefunding(rows, n) ==
    /\ jobs' = [rows EXCEPT ![job].status = "completed", ![job].progress = 100,
                            ![job].currentStage = "Complete",
                            ![job].urls = { ResultNames(rows[job].kind)[i] : i \in 1..n }]
    /\ tokens' = tokens + jobs[job].tokenCost
    /\ disconnect
    /\ wpc' = "sleep"
    /\ job' = "none"
    /\ outputs' = 0
    /\ uploaded' = 0
    /\ ended' = [job |-> job, cause |-> ""]

\* The update to 'completed' with the URLs of the n images uploaded, then finally.
Complete(rows, n) ==
    /\ jobs' = [rows EXCEPT ![job].status = "completed", ![job].progress = 100,
                            ![job].currentStage = "Complete",
                            ![job].urls = { ResultNames(rows[job].kind)[i] : i \in 1..n }]
    /\ tokens' = tokens
    /\ disconnect
    /\ wpc' = "sleep"
    /\ job' = "none"
    /\ outputs' = 0
    /\ uploaded' = 0
    /\ ended' = [job |-> job, cause |-> ""]

\* Math.min(images.length, 8) and its likes: the images a processor uploads
\* of outputs that hold k.
ToUpload(kind, k) == IF k < Len(ResultNames(kind)) THEN k ELSE Len(ResultNames(kind))

\* names.join(', ')
RECURSIVE Joined(_)
Joined(names) ==
    IF names = <<>> THEN ""
    ELSE IF Len(names) = 1 THEN names[1]
    ELSE names[1] \o ", " \o Joined(Tail(names))

\* requiredMaps.filter(m => !uploadedUrls[m]), the first n maps uploaded
MissingMaps(n) == SubSeq(TEXTURE_MAPS, n + 1, Len(TEXTURE_MAPS))

\* What follows the upload loop without the verification of the texture maps
SettleUnverified(rows, n) ==
    CASE rows[job].kind = "rotation" ->
            IF revision = "batch" /\ n = 0
            THEN Fail(rows, "No output images generated from workflow")
            ELSE Complete(rows, n)
      [] rows[job].kind = "asset" ->
            IF n = 0 THEN Fail(rows, "No output image generated") ELSE Complete(rows, n)
      [] rows[job].kind = "texture" -> Complete(rows, n)

\* What follows the upload loop, n images uploaded.
Settle(rows, n) ==
    CASE rows[job].kind = "rotation" ->
            IF revision = "batch" /\ n = 0
            THEN Fail(rows, "No output images generated from workflow")
            ELSE Complete(rows, n)
      [] rows[job].kind = "asset" ->
            IF n = 0 THEN Fail(rows, "No output image generated") ELSE Complete(rows, n)
      [] rows[job].kind = "texture" ->
            IF MissingMaps(n) # <<>>
            THEN Fail(rows, "Missing texture maps: " \o Joined(MissingMaps(n)))
            ELSE Complete(rows, n)

\* The tracker's progress added to 10 without the scaling
UnscaledProgress(p) == 10 + p

\* 10 + Math.floor(info.progress * 0.8). The double 0.8 is a little above
\* 4/5 and p is an integer in 0..100, so p * 0.8 as a double is never below
\* 4p/5 and never reaches the next integer: the floor is that of 8p/10.
ScaledProgress(p) == 10 + (p * 8) \div 10

\* The progress that the callback of the job's processor writes for info.progress = p.
CallbackProgress(p) ==
    IF jobs[job].kind = "rotation" /\ revision = "batch" THEN ScaledProgress(p) ELSE p

\* The worker as `node dist/index.js` starts it, on one of the tables. The
\* first revision exits at once unless its rotation workflow loads, and its
\* database has the rotation table only.
InitWorker ==
    /\ variant = "counted"
    /\ ClientInit
    /\ revision \in Revisions
    /\ workflows \in WorkflowSets
    /\ jobs \in JobTables
    /\ revision = "single"
          => /\ "rotate" \in workflows
             /\ \A j \in DOMAIN jobs : jobs[j].kind = "rotation"
    /\ tokens = DefaultTokens
    /\ wpc = "start"
    /\ job = "none"
    /\ ws = FALSE
    /\ outputs = 0
    /\ uploaded = 0
    /\ inflight = {}
    /\ ended = NoEnd
    /\ healthy = FALSE
    /\ WaitIdle

\* main: await client.checkHealth(), again every 5 s until it is healthy;
\* the first revision checks once, waits 5 s if it is not, and goes on.
checkHealth(ok) ==
    /\ wpc = "start"
    /\ healthy' = ok
    /\ wpc' = IF ok \/ revision = "single" THEN "poll" ELSE "start"
    /\ ended' = NoEnd
    /\ UNCHANGED <<revision, workflows, jobs, tokens, job, ws, outputs, uploaded, inflight>>
    /\ UNCHANGED <<clientVars, waitVars>>

\* main().catch: process.exit(1), where an error that escaped the loop ends up
MainExits == "exit"

\* main's loop: catch (err) { console.error(..) }, then the wait of 2 s
MainCatch == "sleep"

\* pollForJobs and the processor it calls, up to the processor's first await
\* inside try (client.connect()), its return, or what it throws to main.
pollForJobs ==
    /\ wpc = "poll"
    /\ LET j == Picked
       IN IF j = "none"
          THEN /\ wpc' = "sleep"
               /\ ended' = NoEnd
               /\ UNCHANGED <<jobs, tokens, job, ws>>
          ELSE IF ThrownBeforeTry(j) # ""
          THEN /\ wpc' = MainCatch
               /\ ended' = [job |-> j, cause |-> ThrownBeforeTry(j)]
               /\ UNCHANGED <<jobs, tokens, job, ws>>
          ELSE IF jobs[j].kind = "texture" /\ "texture" \notin workflows
          THEN /\ jobs' = [jobs EXCEPT
                              ![j].status = "failed",
                              ![j].errorMessage = "Texture generation workflow not yet configured"]
               /\ tokens' = tokens + jobs[j].tokenCost
               /\ wpc' = "sleep"
               /\ ended' = [job |-> j,
                            cause |-> "Texture generation workflow not yet configured"]
               /\ UNCHANGED <<job, ws>>
          ELSE /\ job' = j
               /\ ws' = TRUE
               /\ wpc' = "connect"
               /\ ended' = NoEnd
               /\ UNCHANGED <<jobs, tokens>>
    /\ UNCHANGED <<healthy, revision, workflows, outputs, uploaded, inflight>>
    /\ UNCHANGED <<clientVars, waitVars>>

\* await client.connect() ends, then the update to 'processing'
connected(ok) ==
    /\ wpc = "connect"
    /\ LET rows == [jobs EXCEPT ![job].status = "processing", ![job].progress = 0,
                                ![job].currentStage =
                                    IF revision = "single" THEN "Connecting to ComfyUI..."
                                    ELSE IF jobs[job].kind = "rotation" /\ revision = "batch"
                                    THEN "Downloading input image..."
                                    ELSE "Starting..."]
       IN IF ~ok THEN Fail(jobs, "WebSocket error")
          ELSE IF jobs[job].kind = "texture" /\ revision = "mapped"
          THEN Fail(rows, "Texture generation not yet implemented")
          ELSE /\ jobs' = rows
               /\ wpc' = IF jobs[job].kind = "rotation" /\ revision = "batch"
                         THEN "download" ELSE "queue"
               /\ ended' = NoEnd
               /\ UNCHANGED <<tokens, job, ws, outputs, uploaded>>
    /\ UNCHANGED <<healthy, revision, workflows, inflight>>
    /\ UNCHANGED <<clientVars, waitVars>>

\* await fetch(job.inputImageUrl) ends
downloaded(ok) ==
    /\ wpc = "download"
    /\ IF ~ok THEN Fail(jobs, "Failed to download input image")
       ELSE /\ jobs' = [jobs EXCEPT ![job].progress = 5,
                                    ![job].currentStage = "Uploading to ComfyUI..."]
            /\ wpc' = "uploadImage"
            /\ ended' = NoEnd
            /\ UNCHANGED <<tokens, job, ws, outputs, uploaded>>
    /\ UNCHANGED <<healthy, revision, workflows, inflight>>
    /\ UNCHANGED <<clientVars, waitVars>>

\* await client.uploadImage(..) ends
uploadImage(ok) ==
    /\ wpc = "uploadImage"
    /\ IF ~ok THEN Fail(jobs, "Failed to upload image")
       ELSE /\ jobs' = [jobs EXCEPT ![job].progress = 10,
                                    ![job].currentStage = "Generating rotations with SV3D..."]
            /\ wpc' = "queue"
            /\ ended' = NoEnd
            /\ UNCHANGED <<tokens, job, ws, outputs, uploaded>>
    /\ UNCHANGED <<healthy, revision, workflows, inflight>>
    /\ UNCHANGED <<clientVars, waitVars>>

\* await client.queuePrompt(workflow, callback) ends
queued(ok) ==
    /\ wpc = "queue"
    /\ IF ~ok THEN Fail(jobs, "Failed to queue prompt")
       ELSE /\ wpc' = "wait"
            /\ ended' = NoEnd
            /\ UNCHANGED <<jobs, tokens, job, ws, outputs, uploaded>>
    /\ UNCHANGED <<healthy, revision, workflows, inflight>>
    /\ UNCHANGED <<clientVars, waitVars>>

\* The callback passed to queuePrompt, called by the client's tracker for a
\* message on the websocket: it starts an update of the row and returns a
\* promise that nothing awaits.
progressCallback(p) ==
    /\ wpc \in {"wait", "upload"}
    /\ ws
    /\ Cardinality(inflight) < MaxInflight
    /\ inflight' = inflight \cup { [job |-> job, info |-> p,
                                    progress |-> CallbackProgress(p),
                                    currentStage |-> "Generating"] }
    /\ ended' = NoEnd
    /\ UNCHANGED <<healthy, revision, workflows, jobs, tokens, wpc, job, ws, outputs, uploaded>>
    /\ UNCHANGED <<clientVars, waitVars>>

\* An update that the callback started reaches the row.
progressWritten(w) ==
    /\ w \in inflight
    /\ inflight' = inflight \ {w}
    /\ jobs' = [jobs EXCEPT ![w.job].progress = w.progress,
                            ![w.job].currentStage = w.currentStage]
    /\ ended' = NoEnd
    /\ UNCHANGED <<healthy, revision, workflows, tokens, wpc, job, ws, outputs, uploaded>>
    /\ UNCHANGED <<clientVars, waitVars>>

\* await client.waitForCompletion(promptId, timeout) ends, then the update
\* to 'Uploading images...' and, with nothing to upload, what follows the loop
waitForCompletion(outcome) ==
    /\ wpc = "wait"
    /\ IF outcome.how = "error" THEN Fail(jobs, "Workflow execution failed")
       ELSE IF outcome.how = "timeout" THEN Fail(jobs, "Timeout waiting for completion")
       ELSE LET rows == [jobs EXCEPT
                            ![job].progress =
                                IF jobs[job].kind = "rotation" /\ revision = "batch"
                                THEN 92 ELSE 95,
                            ![job].currentStage = "Uploading images..."]
            IN IF ToUpload(jobs[job].kind, outcome.images) = 0 THEN Settle(rows, 0)
               ELSE /\ jobs' = rows
                    /\ outputs' = outcome.images
                    /\ uploaded' = 0
                    /\ wpc' = "upload"
                    /\ ended' = NoEnd
                    /\ UNCHANGED <<tokens, job, ws>>
    /\ UNCHANGED <<healthy, revision, workflows, inflight>>
    /\ UNCHANGED <<clientVars, waitVars>>

\* One turn of the upload loop ends: client.getImage and uploadToBlob for the
\* next image; after the last image, what follows the loop
uploadToBlob(ok) ==
    /\ wpc = "upload"
    /\ IF ~ok THEN Fail(jobs, "Blob upload failed")
       ELSE IF uploaded + 1 = ToUpload(jobs[job].kind, outputs)
       THEN Settle(jobs, uploaded + 1)
       ELSE /\ uploaded' = uploaded + 1
            /\ ended' = NoEnd
            /\ UNCHANGED <<jobs, tokens, wpc, job, ws, outputs>>
    /\ UNCHANGED <<healthy, revision, workflows, inflight>>
    /\ UNCHANGED <<clientVars, waitVars>>

\* The 'close' event of the client's websocket once it is open, the server or
\* the network having closed it: this.ws = null
webSocketClosed ==
    /\ wpc \in {"download", "uploadImage", "queue", "wait", "upload"}
    /\ ws
    /\ ws' = FALSE
    /\ ended' = NoEnd
    /\ UNCHANGED <<healthy, revision, workflows, jobs, tokens, wpc, job, outputs, uploaded,
                   inflight>>
    /\ UNCHANGED <<clientVars, waitVars>>

\* main: the 2 s between two polls are over
sleepOver ==
    /\ wpc = "sleep"
    /\ wpc' = "poll"
    /\ ended' = NoEnd
    /\ UNCHANGED <<healthy, revision, workflows, jobs, tokens, job, ws, outputs, uploaded, inflight>>
    /\ UNCHANGED <<clientVars, waitVars>>

NextWorker ==
    \/ \E ok \in BOOLEAN : checkHealth(ok)
    \/ pollForJobs
    \/ \E ok \in BOOLEAN : connected(ok)
    \/ \E ok \in BOOLEAN : downloaded(ok)
    \/ \E ok \in BOOLEAN : uploadImage(ok)
    \/ \E ok \in BOOLEAN : queued(ok)
    \/ \E p \in TrackerProgress : progressCallback(p)
    \/ \E w \in inflight : progressWritten(w)
    \/ \E outcome \in WaitOutcomes : waitForCompletion(outcome)
    \/ \E ok \in BOOLEAN : uploadToBlob(ok)
    \/ webSocketClosed
    \/ sleepOver

SpecWorker == InitWorker /\ [][NextWorker]_vars

\* C19: when the processing of a job that a poll picked up ends because
\* something went wrong, the job's row is 'failed' with an error message and
\* the owner's tokens are tokenCost more than before.
C19_FailureRefunds ==
    [][ (ended'.job # "none" /\ ended'.cause # "")
        => /\ jobs'[ended'.job].status = "failed"
           /\ jobs'[ended'.job].errorMessage # ""
           /\ tokens' = tokens + jobs[ended'.job].tokenCost ]_vars

\* C19 but for what a processor throws before its try block: the failures
\* inside try, and the texture job whose workflow is missing.
C19_FailureInTryRefunds ==
    [][ ( /\ ended'.job # "none" /\ ended'.cause # ""
          /\ ended'.cause \notin {"Rotation workflow not loaded", "No input image provided",
                                  "Sprite workflow not loaded"} )
        => /\ jobs'[ended'.job].status = "failed"
           /\ jobs'[ended'.job].errorMessage # ""
           /\ tokens' = tokens + jobs[ended'.job].tokenCost ]_vars

\* C20: a rotation job whose status is 'completed' has the URLs of all 8
\* directions stored.
C20_CompletedHasAll8 ==
    \A j \in DOMAIN jobs :
        (jobs[j].kind = "rotation" /\ jobs[j].status = "completed")
            => jobs[j].urls = { ROTATION_DIRECTIONS[i] : i \in 1..8 }

\* The job whose processor a poll has just called ("none" if it called
\* none): the job now in process, or the one whose processing the poll ended.
StartedBy(inProcess, end) == IF inProcess # "none" THEN inProcess ELSE end.job

\* C21: a poll hands a job to its processor only if the row is 'pending', and
\* no pending row of the same table is older (has a smaller createdAt).
C21_PendingOldestFirst ==
    [][ (wpc = "poll" /\ StartedBy(job', ended') # "none")
        => LET j == StartedBy(job', ended')
           IN /\ jobs[j].status = "pending"
              /\ \A k \in DOMAIN jobs :
                    (jobs[k].kind = jobs[j].kind /\ jobs[k].status = "pending")
                        => jobs[j].createdAt <= jobs[k].createdAt ]_vars

\* C21's case: of two pending rotation jobs the older one, r2, is in process
\* while r1 still waits.
C21_Witness ==
    /\ DOMAIN jobs = {"r1", "r2"}
    /\ job = "r2"
    /\ jobs["r1"].status = "pending"
    /\ jobs["r2"].createdAt < jobs["r1"].createdAt

\* ---------------------------------------------------------------------------
\* ComfyUIClient.waitForCompletion, poll by poll
\* ---------------------------------------------------------------------------

\* setTimeout(resolve, 1000) between two polls, in ms
PollDelay == 1000

\* The `timeout` arguments the calls are checked with, in ms. The processors
\* pass 300000, 600000 or 900000; a call polls once a second either way.
Timeouts == {2 * PollDelay, 3 * PollDelay}

\* How long a fetch of /history takes to settle, in ms
FetchTimes == {0, TickMs, PollDelay + TickMs}

\* How late the timer of the delay between two polls fires, in ms
TimerLateness == {0, TickMs}

\* The entries the backend writes to its history when a prompt has ended:
\* status absent, { completed, status_str } of a success, and of an error
\* with completed false or true.
Entries ==
    { [present |-> TRUE, completed |-> FALSE, status_str |-> ""],
      [present |-> TRUE, completed |-> TRUE, status_str |-> "success"],
      [present |-> TRUE, completed |-> FALSE, status_str |-> "error"],
      [present |-> TRUE, completed |-> TRUE, status_str |-> "error"] }

\* How a fetch of /history/<promptId> settles: response.ok with a body that
\* parses, a response that is not ok, or a rejection (of fetch, or of
\* response.json()).
Responses == {"ok", "notok", "rejected"}

\* The states in which the call has ended, by return or by throw
WaitEnded == {"returned", "failed", "timeout", "rejected"}

\* const start = Date.now()
waitForCompletionCall(timeout) ==
    /\ waitPc = "idle"
    /\ waitPc' = "test"
    /\ waitStart' = waitNow
    /\ waitTimeout' = timeout
    /\ UNCHANGED <<waitNow, history, polled>>
    /\ UNCHANGED <<clientVars, workerVars>>

\* while (Date.now() - start < timeout) ... ; after the loop, throw
\* `Timeout waiting for completion after ...`
whileTest ==
    /\ waitPc = "test"
    /\ waitPc' = IF waitNow - waitStart < waitTimeout THEN "fetch" ELSE "timeout"
    /\ UNCHANGED <<waitStart, waitNow, waitTimeout, history, polled>>
    /\ UNCHANGED <<clientVars, workerVars>>

\* await fetch(.../history/<promptId>) settles after d ms, and the rest of
\* the loop body up to the next await: the throw on status_str = 'error', the
\* return of entry.outputs on completed, or the start of the delay.
fetchHistory(response, d) ==
    /\ waitPc = "fetch"
    /\ waitNow' = waitNow + d
    /\ \/ /\ response = "rejected"
          /\ waitPc' = "rejected"
          /\ polled' = NoPoll
       \/ /\ response = "notok"
          /\ waitPc' = "sleep"
          /\ polled' = NoPoll
       \/ /\ response = "ok"
          /\ polled' = [ok |-> TRUE, completed |-> history.completed,
                        status_str |-> history.status_str]
          /\ waitPc' = IF history.status_str = "error" THEN "failed"
                       ELSE IF history.completed THEN "returned"
                       ELSE "sleep"
    /\ UNCHANGED <<waitStart, waitTimeout, history>>
    /\ UNCHANGED <<clientVars, workerVars>>

\* await new Promise((resolve) => setTimeout(resolve, 1000))
pollDelay(late) ==
    /\ waitPc = "sleep"
    /\ waitPc' = "test"
    /\ waitNow' = waitNow + PollDelay + late
    /\ UNCHANGED <<waitStart, waitTimeout, history, polled>>
    /\ UNCHANGED <<clientVars, workerVars>>

\* The backend ends the prompt and writes its history entry.
historyWritten(entry) ==
    /\ waitPc \in {"test", "fetch", "sleep"}
    /\ history = NoEntry
    /\ history' = entry
    /\ UNCHANGED <<waitPc, waitStart, waitNow, waitTimeout, polled>>
    /\ UNCHANGED <<clientVars, workerVars>>

InitWait ==
    /\ variant \in Variants
    /\ ClientInit
    /\ revision = "batch"
    /\ workflows = {}
    /\ jobs = <<>>
    /\ tokens = 0
    /\ wpc = "start"
    /\ job = "none"
    /\ ws = FALSE
    /\ outputs = 0
    /\ uploaded = 0
    /\ inflight = {}
    /\ ended = NoEnd
    /\ healthy = FALSE
    /\ WaitIdle

NextWait ==
    \/ \E timeout \in Timeouts : waitForCompletionCall(timeout)
    \/ whileTest
    \/ \E response \in Responses, d \in FetchTimes : fetchHistory(response, d)
    \/ \E late \in TimerLateness : pollDelay(late)
    \/ \E entry \in Entries : historyWritten(entry)

SpecWait == InitWait /\ [][NextWait]_vars

\* C22: a call of waitForCompletion ends in one of three ways only: it
\* returns after a poll that showed the entry completed and not in error, and
\* before the timeout has elapsed; it throws 'Workflow execution failed' after
\* a poll that showed status_str = 'error'; or it throws the timeout error
\* when the timeout has elapsed.
C22_ThreeOutcomes ==
    /\ waitPc \in WaitEnded => waitPc \in {"returned", "failed", "timeout"}
    /\ waitPc = "returned"
        => /\ polled.ok /\ polled.completed /\ polled.status_str # "error"
           /\ waitNow - waitStart < waitTimeout
    /\ waitPc = "failed" => polled.status_str = "error"
    /\ waitPc = "timeout" => waitNow - waitStart >= waitTimeout

\* What of C22 the loop does keep: outputs are returned only from a poll that
\* showed completed and no error, an error entry is thrown at the poll that
\* shows it whether completed or not, the timeout error is thrown only once
\* the timeout has elapsed, and no poll starts after the timeout.
C22_OutcomesOfPolls ==
    /\ waitPc = "returned"
        => polled.ok /\ polled.completed /\ polled.status_str # "error"
    /\ waitPc = "failed" => polled.ok /\ polled.status_str = "error"
    /\ waitPc = "timeout" => waitNow - waitStart >= waitTimeout
    /\ waitPc = "fetch" => waitNow - waitStart < waitTimeout
    /\ (waitPc = "sleep" /\ polled.ok) => ~polled.completed /\ polled.status_str # "error"

\* The part of C22 about time alone: outputs are returned only while the
\* timeout has not elapsed since the call began.
C22_ReturnsInTime ==
    waitPc = "returned" => waitNow - waitStart < waitTimeout

\* The jobs of a table that are pending
PendingOf(kind) ==
    { j \in DOMAIN jobs : jobs[j].kind = kind /\ jobs[j].status = "pending" }

\* The rows that a step changes
RowsChanged(before, after) == { j \in DOMAIN before : after[j] # before[j] }

\* C23: a poll runs only when no job is in process, it hands at most one job
\* to a processor and writes to no other row; the job is an asset job only if no
\* rotation job is pending, and a texture job only if neither a rotation job
\* nor an asset job is pending.
C23_OneJobByPriority ==
    [][ (wpc = "poll" /\ wpc' # "poll")
        => /\ job = "none"
           /\ RowsChanged(jobs, jobs') \subseteq {StartedBy(job', ended')}
           /\ LET j == StartedBy(job', ended')
              IN j # "none"
                 => /\ jobs[j].kind = "asset" => PendingOf("rotation") = {}
                    /\ jobs[j].kind = "texture"
                         => PendingOf("rotation") = {} /\ PendingOf("asset") = {} ]_vars

\* C23's case: the asset job is in process while the texture job, though
\* created earlier, still waits.
C23_Witness ==
    /\ DOMAIN jobs = {"a1", "t1"}
    /\ job = "a1"
    /\ jobs["t1"].status = "pending"
    /\ jobs["t1"].createdAt < jobs["a1"].createdAt

\* ---------------------------------------------------------------------------
\* The progress callback of processRotationJob on every progress of the tracker
\* ---------------------------------------------------------------------------

\* info.progress as the tracker reports it: Math.min(99, ...) or 100
InfoProgress == 0..100

\* A rotation job of the batch revision after queuePrompt has returned, while
\* the processor awaits waitForCompletion.
InitScale ==
    /\ variant = "counted"
    /\ ClientInit
    /\ revision = "batch"
    /\ workflows = {"rotate", "sprite", "texture"}
    /\ jobs = "r1" :> [NewJob("rotation", 1, 8, TRUE) EXCEPT
                          !.status = "processing",
                          !.progress = 10,
                          !.currentStage = "Generating rotations with SV3D..."]
    /\ tokens = DefaultTokens
    /\ wpc = "wait"
    /\ job = "r1"
    /\ ws = TRUE
    /\ outputs = 0
    /\ uploaded = 0
    /\ inflight = {}
    /\ ended = NoEnd
    /\ healthy = TRUE
    /\ WaitIdle

NextScale ==
    \/ \E p \in InfoProgress : progressCallback(p)
    \/ \E w \in inflight : progressWritten(w)

SpecScale == InitScale /\ [][NextScale]_vars

\* C24: while a rotation job generates, the progress that the callback writes
\* for the tracker's progress p in 0..100 is 10 + floor(0.8 p); it is at least
\* the 10 written before the submission and at most 90, below the 92 written
\* at 'Uploading images...', and so is the progress of the row.
C24_ScaledProgressRange ==
    /\ \A w \in inflight :
          /\ 10 * (w.progress - 10) <= 8 * w.info
          /\ 8 * w.info < 10 * (w.progress - 10) + 10
          /\ 10 <= w.progress /\ w.progress <= 90 /\ w.progress < 92
    /\ 10 <= jobs[job].progress /\ jobs[job].progress <= 90 /\ jobs[job].progress < 92

\* C24's case: the callback's write for progress 100 has reached the row, and
\* a write for progress 0 is under way.
C24_Witness ==
    /\ jobs[job].progress = 90
    /\ \E w \in inflight : w.info = 0 /\ w.progress = 10

\* The state that SpecScale starts in, which the worker of SpecWorker reaches.
C24_ScaleStart ==
    /\ revision = "batch" /\ workflows = {"rotate", "sprite", "texture"}
    /\ jobs = "r1" :> [NewJob("rotation", 1, 8, TRUE) EXCEPT
                          !.status = "processing",
                          !.progress = 10,
                          !.currentStage = "Generating rotations with SV3D..."]
    /\ tokens = DefaultTokens /\ wpc = "wait" /\ job = "r1" /\ ws /\ outputs = 0
    /\ uploaded = 0 /\ inflight = {} /\ healthy

\* The maps among the backend's outputs when they hold k of them
MapsOf(k) == { TEXTURE_MAPS[i] : i \in 1..ToUpload("texture", k) }

\* The error message that names the required maps not among `present`
MissingNamed(present) ==
    "Missing texture maps: " \o Joined(SelectSeq(TEXTURE_MAPS, LAMBDA m : m \notin present))

C26_HealthyBeforePolling ==
    wpc # "start" => healthy

\* C26 in the revisions whose main repeats the health check until it is healthy
C26_HealthyBeforePollingLooped ==
    (revision # "single" /\ wpc # "start") => healthy

\* ---------------------------------------------------------------------------
\* The worker with its awaits ending
\* ---------------------------------------------------------------------------

\* The worker where every await of main and of the processors ends (a timer
\* fires, a request is answered or fails, a started update reaches the row),
\* and ComfyUI is healthy at some health check. Progress messages may or may
\* not come.
SpecWorkerFair ==
    /\ InitWorker
    /\ [][NextWorker]_vars
    /\ WF_vars(checkHealth(TRUE))
    /\ WF_vars(pollForJobs)
    /\ WF_vars(\E ok \in BOOLEAN : connected(ok))
    /\ WF_vars(\E ok \in BOOLEAN : downloaded(ok))
    /\ WF_vars(\E ok \in BOOLEAN : uploadImage(ok))
    /\ WF_vars(\E ok \in BOOLEAN : queued(ok))
    /\ WF_vars(\E w \in inflight : progressWritten(w))
    /\ WF_vars(\E outcome \in WaitOutcomes : waitForCompletion(outcome))
    /\ WF_vars(\E ok \in BOOLEAN : uploadToBlob(ok))
    /\ WF_vars(sleepOver)

\* C27: wherever the worker is once its loop has started, and so too after a
\* poll that failed (by an error thrown to main or by one that the job's
\* processor caught), it polls again: the loop never ends.
C27_PollsAgain ==
    (wpc # "start") ~> (wpc = "poll")

\* C27's case: a poll has thrown to main (the job it picked is still pending)
\* and the worker is in the wait before the next poll.
C27_Witness ==
    /\ ended.job # "none"
    /\ ended.cause = "Rotation workflow not loaded"
    /\ jobs[ended.job].status = "pending"
    /\ wpc = "sleep"

\* C28: whenever no processor is running, that is before the first job and
\* after each processor has returned, on success and on failure alike, the
\* client's websocket is closed (ws is null); a disconnect that finds it
\* closed already leaves it closed.
C28_SocketClosedOnReturn ==
    job = "none" => ~ws

\* The same, step by step: a step that ends the processing of a job leaves ws
\* null, whether the socket was open before it or had closed already.
C28_DisconnectOnEveryPath ==
    [][ (job # "none" /\ job' = "none") => ~ws' ]_vars

\* C28's cases: a processor has returned after a failure with the client
\* disconnected, ...
C28_Witness ==
    /\ job = "none"
    /\ ~ws
    /\ ended.job # "none"
    /\ ended.cause = "Workflow execution failed"
    /\ jobs[ended.job].status = "failed"

\* ... a processor has returned after completing the job, ...
C28_WitnessCompleted ==
    /\ job = "none"
    /\ ~ws
    /\ ended.job # "none"
    /\ jobs[ended.job].status = "completed"

\* ... and a processor is about to disconnect a client whose socket has
\* closed already.
C28_WitnessClosedBefore ==
    /\ wpc = "upload"
    /\ ~ws
    /\ uploaded + 1 = ToUpload(jobs[job].kind, outputs)

\* The ids of the rows of JobTables
JobIds == {"r1", "r2", "a1", "t1"}

\* The row exists and is 'pending'
IsPending(j) == j \in DOMAIN jobs /\ jobs[j].status = "pending"

\* The row exists and is 'completed' or 'failed'
IsTerminal(j) == j \in DOMAIN jobs /\ jobs[j].status \in {"completed", "failed"}

\* The processor of no job of the table throws before its try block.
NoneThrowsBeforeTry == \A k \in DOMAIN jobs : ThrownBeforeTry(k) = ""

\* C29: every job that is 'pending' is 'completed' or 'failed' at some later
\* time, the worker running on and each of its awaits ending.
C29_EveryJobEnds ==
    \A j \in JobIds :
        IsPending(j) ~> IsTerminal(j)

\* C29 where no processor throws before its try block: the workflows of the
\* jobs' kinds are loaded and each rotation job of the batch revision has its
\* input image.
C29_EveryJobEndsUnlessThrown ==
    \A j \in JobIds :
        (IsPending(j) /\ NoneThrowsBeforeTry)
            ~> IsTerminal(j)

\* C30: every pending asset or texture job is handed to its processor at some
\* later time, whatever becomes of the rotation jobs.
C30_LowerTablesServed ==
    \A j \in JobIds :
        (IsPending(j) /\ jobs[j].kind \in {"asset", "texture"})
            ~> (job = j \/ ended.job = j)

\* C30 where no processor throws before its try block
C30_LowerTablesServedUnlessThrown ==
    \A j \in JobIds :
        (IsPending(j) /\ jobs[j].kind \in {"asset", "texture"} /\ NoneThrowsBeforeTry)
            ~> (job = j \/ ended.job = j)

\* The rows that a step writes 'failed'
NewlyFailed == { j \in DOMAIN jobs : jobs[j].status # "failed" /\ jobs'[j].status = "failed" }

\* C31: the user's tokens change only in a step that writes one job
\* 'failed', and then by that job's tokenCost; a row that is 'completed' or
\* 'failed' keeps its status, so a job is refunded at most once, and a job that
\* ends 'completed' never.
C31_RefundOnceOnlyFailed ==
    [][ /\ tokens' # tokens
            => \E j \in NewlyFailed :
                  NewlyFailed = {j} /\ tokens' = tokens + jobs[j].tokenCost
        /\ \A j \in DOMAIN jobs :
              jobs[j].status \in {"completed", "failed"}
                  => jobs'[j].status = jobs[j].status ]_vars

\* The same seen in the states: the user's tokens are the initial ones plus
\* the tokenCost of each job that is 'failed'.
C31_TokensOfFailedJobs ==
    LET failed == { j \in DOMAIN jobs : jobs[j].status = "failed" }
        cost(j) == IF j \in failed THEN jobs[j].tokenCost ELSE 0
    IN tokens = DefaultTokens + cost("r1") + cost("r2") + cost("a1") + cost("t1")

\* C31's case: of two rotation jobs one has ended 'completed' and the other
\* 'failed', and the user has the tokens of the failed one back, once.
C31_Witness ==
    /\ DOMAIN jobs = {"r1", "r2"}
    /\ jobs["r2"].status = "completed"
    /\ jobs["r1"].status = "failed"
    /\ tokens = DefaultTokens + jobs["r1"].tokenCost

\* C32: a row that is 'completed' or 'failed' keeps its progress and its
\* currentStage in every later step.
C32_TerminalRowUntouched ==
    [][ \A j \in DOMAIN jobs :
            jobs[j].status \in {"completed", "failed"}
                => /\ jobs'[j].progress = jobs[j].progress
                   /\ jobs'[j].currentStage = jobs[j].currentStage ]_vars

\* C32 for the rows that no update started by the progress callback is still
\* under way for: the processors and main write nothing to a terminal row.
C32_TerminalRowUntouchedByProcessor ==
    [][ \A j \in DOMAIN jobs :
            (jobs[j].status \in {"completed", "failed"} /\ \A w \in inflight : w.job # j)
                => /\ jobs'[j].progress = jobs[j].progress
                   /\ jobs'[j].currentStage = jobs[j].currentStage ]_vars

\* A state that C32 excludes: a job is 'completed' and the row shows the
\* stage of a progress update, which has landed after the terminal write.
C32_CompletedRowOverwritten ==
    \E j \in DOMAIN jobs :
        jobs[j].status = "completed" /\ jobs[j].currentStage = "Generating"

\* C33: the execution_start event of the client's own submission is handled
\* (the tracker is reset and progress 0 is reported to the callback) also when
\* it arrives while queuePrompt still awaits the response that carries the
\* prompt id.
C33_StartHandledBeforeResponse ==
    (pc = "queuing" /\ onProgress /\ lastMsg = ExecutionStart(OwnId))
        => emitted # <<>>

\* C33 once queuePrompt has stored the prompt id: the event is handled.
C33_StartHandledAfterResponse ==
    (pc = "queued" /\ onProgress /\ lastMsg = ExecutionStart(OwnId))
        => /\ emitted # <<>>
           /\ variant = "counted" => executedNodes = {}

\* C34: in every state the completed weight is at most the total weight of
\* the submitted graph (weighted revision), and the number of completed nodes
\* is at most the number of nodes of the graph (node-count revision).
C34_CompletedWithinTotal ==
    /\ variant = "weighted" => executedWeight <= totalWeight
    /\ variant = "counted" => Cardinality(executedNodes) <= totalNodes

\* C34 in the node-count revision while every completed node is a node of the
\* submitted graph
C34_GraphNodesWithinTotal ==
    (variant = "counted" /\ pc # "new" /\ executedNodes \subseteq DOMAIN submitted)
        => Cardinality(executedNodes) <= totalNodes

====
